---------------------------- MODULE Spec2Model ----------------------------
(***************************************************************************)
(* A model of vtk-rs232: the TLV record codec, the frame codec and CRC16   *)
(* of src/src/vtk.rs, and the STA/VRP/FIN payment handshake driven by the  *)
(* polling loop of src/src/main.rs.                                        *)
(*                                                                         *)
(* Byte strings are sequences of numbers 0..255; a record set (Tlv) is a   *)
(* function from a set of key bytes to byte strings.  Time is counted in   *)
(* whole seconds.  Writes to the serial port always succeed (the transport *)
(* is an external collaborator); reads may succeed, fail or time out.      *)
(***************************************************************************)
EXTENDS Integers, Sequences, FiniteSets, TLC

(***************************************************************************)
(* TlvKey (vtk.rs 15-35): the key bytes used by the handshake, and the     *)
(* closed set of known keys that num::FromPrimitive::from_u8 accepts.      *)
(***************************************************************************)
MsgName == 1
OperationNum == 3
AmountInMinorCurrencyUnit == 4
DisplayTimeInMs == 20

TlvKey == {MsgName} \cup (OperationNum .. DisplayTimeInMs)

(***************************************************************************)
(* Program constants.                                                      *)
(***************************************************************************)
KeepaliveSecs == 270
ReadTimeoutSecs == 2
SleepSecs == 1

(***************************************************************************)
(* Bounds of the model.  MaxOpNum caps the operation counter on the runs   *)
(* that start from a small seed: no start event is delivered once the      *)
(* counter has reached it.                                                 *)
(***************************************************************************)
MaxOpNum == 2

(***************************************************************************)
(* u32.  The model checker's integers are 32-bit signed, so a u32 is kept  *)
(* as its two 16-bit halves <<high, low>>, most significant first.         *)
(***************************************************************************)
Half == 2^16

u32(n) == <<n \div Half, n % Half>>
U32Max == <<Half - 1, Half - 1>>

\* Wrapping addition of one, as `+= 1` does where overflow does not trap.
wrapping_inc(v) ==
    IF v[2] < Half - 1 THEN <<v[1], v[2] + 1>>
    ELSE <<(v[1] + 1) % Half, 0>>

div10(v) == <<v[1] \div 10, ((v[1] % 10) * Half + v[2]) \div 10>>
mod10(v) == ((v[1] % 10) * Half + v[2]) % 10

(***************************************************************************)
(* Text.  Message names and decimal numbers as ASCII byte strings.         *)
(* Option<u32> is the u32, or None; a call that panics yields Panic.       *)
(***************************************************************************)
STA == <<83, 84, 65>>
VRP == <<86, 82, 80>>
FIN == <<70, 73, 78>>
IDL == <<73, 68, 76>>
DIS == <<68, 73, 83>>

None == <<>>
Panic == <<-1>>
IsSome(opt) == Len(opt) = 2

RECURSIVE to_string(_)
\* u32::to_string: decimal digits, most significant first, no leading zero.
to_string(v) ==
    IF v[1] = 0 /\ v[2] < 10 THEN <<48 + v[2]>>
    ELSE Append(to_string(div10(v)), 48 + mod10(v))

\* acc * 10 + digit, checked: None on overflow of 32 bits.
checked_push(acc, digit) ==
    LET low == acc[2] * 10 + digit
        high == acc[1] * 10 + (low \div Half)
    IN  IF high >= Half THEN None ELSE <<high, low % Half>>

RECURSIVE parse_digits(_, _)
parse_digits(acc, d) ==
    IF acc = None \/ d = <<>> THEN acc
    ELSE parse_digits(checked_push(acc, Head(d) - 48), Tail(d))

\* str::parse::<u32>: an optional leading '+', then one or more decimal
\* digits whose value fits 32 bits; anything else is an error (None).
parse_u32(s) ==
    IF s = <<>> THEN None
    ELSE LET d == IF s[1] = 43 THEN Tail(s) ELSE s
         IN  IF d = <<>> \/ (\E i \in 1..Len(d) : d[i] < 48 \/ d[i] > 57)
             THEN None
             ELSE parse_digits(u32(0), d)

\* String::from_utf8 succeeds.  The byte strings of this model hold ASCII
\* bytes and the byte 0xFF, which is valid nowhere in UTF-8; on those the
\* test is exact.
from_utf8_ok(v) == \A i \in 1..Len(v) : v[i] < 128

(***************************************************************************)
(* Tlv (vtk.rs 38-114).                                                    *)
(***************************************************************************)
Tlv_new == [k \in {} |-> <<>>]

set_str(tlv, key, data) ==
    [k \in (DOMAIN tlv) \cup {key} |-> IF k = key THEN data ELSE tlv[k]]

\* A deser_one that refuses a record ending with the buffer.
deser_one_off_by_one(raw, begin) ==
    IF Len(raw) - begin < 2 THEN None
    ELSE LET k == raw[begin + 1]
             len == raw[begin + 2]
         IN  IF begin + len + 2 >= Len(raw) THEN None
             ELSE <<k, SubSeq(raw, begin + 3, begin + len + 2), len + 2>>

\* A deser_one that does not test the declared length against the buffer.
deser_one_past_end(raw, begin) ==
    IF Len(raw) - begin < 2 THEN None
    ELSE LET k == raw[begin + 1]
             len == raw[begin + 2]
             last == IF begin + len + 2 > Len(raw) THEN Len(raw) ELSE begin + len + 2
         IN  <<k, SubSeq(raw, begin + 3, last), len + 2>>

\* Tlv::deser_one: the record at offset begin (counted from 0) as
\* <<key, value, bytes consumed>>, or None.
deser_one(raw, begin) ==
    IF Len(raw) - begin < 2 THEN None
    ELSE LET k == raw[begin + 1]
             len == raw[begin + 2]
         IN  IF begin + len + 2 > Len(raw) THEN None
             ELSE <<k, SubSeq(raw, begin + 3, begin + len + 2), len + 2>>

\* A round that inserts a known key whether or not it is there already.
deserialize_round_last_wins(raw, st) ==
    LET one == deser_one(raw, st[1])
    IN  IF st[3] \/ one = None THEN <<st[1], st[2], TRUE>>
        ELSE <<st[1] + one[3],
               IF one[1] \in TlvKey THEN set_str(st[2], one[1], one[2]) ELSE st[2],
               FALSE>>

\* A round that steps over the key and the length of an unknown record and
\* not over its value.
deserialize_round_skips_header_only(raw, st) ==
    LET one == deser_one(raw, st[1])
    IN  IF st[3] \/ one = None THEN <<st[1], st[2], TRUE>>
        ELSE <<st[1] + (IF one[1] \in TlvKey THEN one[3] ELSE 2),
               IF one[1] \in TlvKey /\ one[1] \notin DOMAIN st[2]
               THEN set_str(st[2], one[1], one[2])
               ELSE st[2],
               FALSE>>

\* One round of the loop of Tlv::deserialize, on <<i, data, broken>>: a
\* known key is inserted unless it is there already, an unknown one is
\* skipped, and the loop breaks when deser_one finds no record.
deserialize_round(raw, st) ==
    LET one == deser_one(raw, st[1])
    IN  IF st[3] \/ one = None THEN <<st[1], st[2], TRUE>>
        ELSE <<st[1] + one[3],
               IF one[1] \in TlvKey /\ one[1] \notin DOMAIN st[2]
               THEN set_str(st[2], one[1], one[2])
               ELSE st[2],
               FALSE>>

RECURSIVE deserialize_rounds(_, _, _)
\* n rounds of the loop, halved so that the evaluation stays shallow.
deserialize_rounds(raw, st, n) ==
    IF n = 0 THEN st
    ELSE IF n = 1 THEN deserialize_round(raw, st)
    ELSE LET half == deserialize_rounds(raw, st, n \div 2)
         IN  IF half[3] THEN half
             ELSE deserialize_rounds(raw, half, n - (n \div 2))

\* Tlv::deserialize.  A round consumes at least two bytes, so the loop has
\* broken after Len(raw) \div 2 + 1 rounds.
deserialize(raw) ==
    deserialize_rounds(raw, <<0, Tlv_new, FALSE>>, (Len(raw) \div 2) + 1)[2]

\* The orders in which a HashMap may hand out the pairs of a record set.
Orders(tlv) ==
    LET n == Cardinality(DOMAIN tlv)
    IN  {o \in [1..n -> DOMAIN tlv] : \A i, j \in 1..n : i # j => o[i] # o[j]}

RECURSIVE serialize(_, _)
\* Tlv::serialize, the pairs taken in the given order: key, length as u8,
\* value.
serialize(tlv, order) ==
    IF order = <<>> THEN <<>>
    ELSE <<Head(order), Len(tlv[Head(order)]) % 256>>
         \o tlv[Head(order)] \o serialize(tlv, Tail(order))

(***************************************************************************)
(* CRC16 (vtk.rs 244-277).                                                 *)
(***************************************************************************)
RECURSIVE Xor(_, _)
\* Bitwise exclusive or of two naturals.
Xor(a, b) ==
    IF a = 0 THEN b
    ELSE IF b = 0 THEN a
    ELSE (((a % 2) + (b % 2)) % 2) + 2 * Xor(a \div 2, b \div 2)

CRC16_CCITT_TABLE == <<
    0, 4129, 8258, 12387, 16516, 20645, 24774, 28903,
    33032, 37161, 41290, 45419, 49548, 53677, 57806, 61935,
    4657, 528, 12915, 8786, 21173, 17044, 29431, 25302,
    37689, 33560, 45947, 41818, 54205, 50076, 62463, 58334,
    9314, 13379, 1056, 5121, 25830, 29895, 17572, 21637,
    42346, 46411, 34088, 38153, 58862, 62927, 50604, 54669,
    13907, 9842, 5649, 1584, 30423, 26358, 22165, 18100,
    46939, 42874, 38681, 34616, 63455, 59390, 55197, 51132,
    18628, 22757, 26758, 30887, 2112, 6241, 10242, 14371,
    51660, 55789, 59790, 63919, 35144, 39273, 43274, 47403,
    23285, 19156, 31415, 27286, 6769, 2640, 14899, 10770,
    56317, 52188, 64447, 60318, 39801, 35672, 47931, 43802,
    27814, 31879, 19684, 23749, 11298, 15363, 3168, 7233,
    60846, 64911, 52716, 56781, 44330, 48395, 36200, 40265,
    32407, 28342, 24277, 20212, 15891, 11826, 7761, 3696,
    65439, 61374, 57309, 53244, 48923, 44858, 40793, 36728,
    37256, 33193, 45514, 41451, 53516, 49453, 61774, 57711,
    4224, 161, 12482, 8419, 20484, 16421, 28742, 24679,
    33721, 37784, 41979, 46042, 49981, 54044, 58239, 62302,
    689, 4752, 8947, 13010, 16949, 21012, 25207, 29270,
    46570, 42443, 38312, 34185, 62830, 58703, 54572, 50445,
    13538, 9411, 5280, 1153, 29798, 25671, 21540, 17413,
    42971, 47098, 34713, 38840, 59231, 63358, 50973, 55100,
    9939, 14066, 1681, 5808, 26199, 30326, 17941, 22068,
    55628, 51565, 63758, 59695, 39368, 35305, 47498, 43435,
    22596, 18533, 30726, 26663, 6336, 2273, 14466, 10403,
    52093, 56156, 60223, 64286, 35833, 39896, 43963, 48026,
    19061, 23124, 27191, 31254, 2801, 6864, 10931, 14994,
    64814, 60687, 56684, 52557, 48554, 44427, 40424, 36297,
    31782, 27655, 23652, 19525, 15522, 11395, 7392, 3265,
    61215, 65342, 53085, 57212, 44955, 49082, 36825, 40952,
    28183, 32310, 20053, 24180, 11923, 16050, 3793, 7920 >>

\* A round that indexes the table by the low byte of the register.
crc_step_low_byte_index(crc, byte) ==
    Xor((crc * 256) % 65536, CRC16_CCITT_TABLE[Xor(crc % 256, byte % 256) + 1])

\* One round of get_crc's loop on a u16 register.
crc_step(crc, byte) ==
    Xor((crc * 256) % 65536, CRC16_CCITT_TABLE[Xor(crc \div 256, byte % 256) + 1])

RECURSIVE crc_over(_, _, _, _)
\* The loop of get_crc over data[from..to], halved so that the evaluation
\* stays shallow (the test of left makes it be computed before the rest).
crc_over(crc, data, from, to) ==
    IF from > to THEN crc
    ELSE IF from = to THEN crc_step(crc, data[from])
    ELSE LET mid == (from + to) \div 2
             left == crc_over(crc, data, from, mid)
         IN  IF left < 0 THEN left ELSE crc_over(left, data, mid + 1, to)

\* `let mut crc: u16 = 0xffff`
CrcInit == 65535

get_crc(data) == crc_over(CrcInit, data, 1, Len(data))

(***************************************************************************)
(* The event classifiers of main.rs.  Each walks the records of the        *)
(* message; the walk aborts (panics) on a message name or an amount that   *)
(* is not UTF-8 and on an amount that does not parse, whatever the name.   *)
(* The order of the walk does not change the outcome.                      *)
(***************************************************************************)
HasKey(msg, key) == key \in DOMAIN msg

walk_panics(msg) ==
    \/ HasKey(msg, MsgName) /\ ~from_utf8_ok(msg[MsgName])
    \/ /\ HasKey(msg, AmountInMinorCurrencyUnit)
       /\ \/ ~from_utf8_ok(msg[AmountInMinorCurrencyUnit])
          \/ parse_u32(msg[AmountInMinorCurrencyUnit]) = None

name_is(msg, name) == HasKey(msg, MsgName) /\ msg[MsgName] = name

amount_of(msg) ==
    IF HasKey(msg, AmountInMinorCurrencyUnit)
    THEN parse_u32(msg[AmountInMinorCurrencyUnit])
    ELSE None

\* Option<u32>: the amount, None, or Panic.
match_sta(msg) ==
    IF walk_panics(msg) THEN Panic
    ELSE IF name_is(msg, STA) /\ amount_of(msg) # None THEN amount_of(msg)
    ELSE None

\* A match_vrp that does not compare the amount.
match_vrp_any_amount(msg, money_) ==
    IF walk_panics(msg) THEN "panic"
    ELSE IF ~name_is(msg, VRP) THEN "false"
    ELSE IF amount_of(msg) = None THEN "panic"
    ELSE "true"

\* A match_vrp that takes a missing amount for no match.
match_vrp_without_unwrap(msg, money_) ==
    IF walk_panics(msg) THEN "panic"
    ELSE IF ~name_is(msg, VRP) THEN "false"
    ELSE IF amount_of(msg) = None THEN "false"
    ELSE IF amount_of(msg) = money_ THEN "true" ELSE "false"

\* bool as "true" / "false", or "panic": `vrp && amount.unwrap() == money`
\* unwraps only when the name matched.
match_vrp(msg, money_) ==
    IF walk_panics(msg) THEN "panic"
    ELSE IF ~name_is(msg, VRP) THEN "false"
    ELSE IF amount_of(msg) = None THEN "panic"
    ELSE IF amount_of(msg) = money_ THEN "true" ELSE "false"

match_fin(msg, money_) ==
    IF walk_panics(msg) THEN "panic"
    ELSE IF ~name_is(msg, FIN) THEN "false"
    ELSE IF amount_of(msg) = None THEN "panic"
    ELSE IF amount_of(msg) = money_ THEN "true" ELSE "false"

(***************************************************************************)
(* Vtk::send as seen by the handshake: the record set that is framed and   *)
(* written, with the message name set.  Its bytes are FrameBytes below.    *)
(***************************************************************************)
send(msg_name, tlv) == set_str(tlv, MsgName, msg_name)

\* send_vrp: `self.operation_num += 1` on a u32 (where it does not trap), then
\* the frame it writes, which carries the counter's new value op.
send_vrp_num(op) == wrapping_inc(op)

send_vrp(amount, op) ==
    send(VRP, set_str(set_str(Tlv_new, AmountInMinorCurrencyUnit, to_string(amount)),
                      OperationNum, to_string(op)))

\* A send_fin that increments the counter as send_vrp does.
send_fin_num_incremented(op) == wrapping_inc(op)

\* send_fin leaves the counter alone and writes it into the frame.
send_fin_num(op) == op

send_fin(amount, op) ==
    send(FIN, set_str(set_str(Tlv_new, AmountInMinorCurrencyUnit, to_string(amount)),
                      OperationNum, to_string(op)))

idle(add) == send(IDL, add)

\* The liveness frame of the loop's timer branch.
keepalive(op) == send(IDL, set_str(Tlv_new, OperationNum, to_string(op)))

(***************************************************************************)
(* Vtk::send and Vtk::receive on bytes (vtk.rs 212-241).  A receive is     *)
(* "ok" with the decoded record set, or "err".                             *)
(***************************************************************************)
BufLen == 512
HeaderLen == 5
MinFrame == 9
StartMarker == 31

Magic == <<150, 251>>

NoMsg == [res |-> "none", tlv |-> Tlv_new]
ErrMsg == [res |-> "err", tlv |-> Tlv_new]
OkMsg(m) == [res |-> "ok", tlv |-> m]

\* u16::to_be_bytes
to_be_bytes(n) == <<n \div 256, n % 256>>

\* A length field that leaves the magic bytes out.
frame_len_without_magic(payload) == Len(payload) % 65536

\* (tlv.len() + 2) as u16
frame_len(payload) == (Len(payload) + 2) % 65536

\* The bytes Vtk::send writes, the pairs serialized in the given order.
send_bytes(msg_name, tlv, order) ==
    LET payload == serialize(send(msg_name, tlv), order)
        buf == <<StartMarker>> \o to_be_bytes(frame_len(payload)) \o Magic \o payload
    IN  buf \o to_be_bytes(get_crc(buf))

\* port.read into the zeroed buffer of BufLen bytes, the bytes on the wire
\* arriving together: the buffer, and the number of bytes read.
read_buf(wire_) == [i \in 1..BufLen |-> IF i <= Len(wire_) THEN wire_[i] ELSE 0]
read_size(wire_) == IF Len(wire_) < BufLen THEN Len(wire_) ELSE BufLen

\* port.read returned an error: the read failed or timed out.
ReadFailed == <<-1>>

\* A receive that decodes whatever was read, however few the bytes.
receive_any_size(wire_) ==
    IF wire_ = ReadFailed THEN ErrMsg
    ELSE OkMsg(deserialize(SubSeq(read_buf(wire_), HeaderLen + 1, BufLen)))

\* Vtk::receive, on what port.read returned: `?` hands a read error on, and
\* fewer than MinFrame bytes are an error too.
receive(wire_) ==
    IF wire_ = ReadFailed THEN ErrMsg
    ELSE IF read_size(wire_) < MinFrame THEN ErrMsg
    ELSE OkMsg(deserialize(SubSeq(read_buf(wire_), HeaderLen + 1, BufLen)))

(***************************************************************************)
(* The state.  pc is the position in the loop of main: "timer" (line 88),  *)
(* "receive" (95), "finalize" (120), "sleep" (128), or "aborted" after a   *)
(* panic.  sta, vrp, fin, money are main's locals, operation_num is        *)
(* dev.operation_num and elapsed is timer.elapsed() in seconds.            *)
(*                                                                         *)
(* Observed, not read by the program: msg is the outcome of the receive of *)
(* the last step, sent the frames the last step wrote, heard and told how  *)
(* far the inbound STA, VRP, FIN and the outbound VRP, FIN of each amount  *)
(* have come since the last reset, vrp_op the counter carried by the last  *)
(* VRP frame since the reset, since_live the seconds since the last        *)
(* liveness frame (or loop start), and cause why the loop aborted.         *)
(*                                                                         *)
(* The codec is exercised on its own (SpecCodec): given and given_name are *)
(* the record set and the message name handed to serialize or send, wire   *)
(* the bytes produced, back what deserialize or receive made of them, and  *)
(* cpc how far that has come.  Under Spec and SpecTimed wire is what the   *)
(* loop's last port.read returned.                                         *)
(*                                                                         *)
(* The two loops over bytes are also run round by round (SpecDecode,       *)
(* SpecCrc): cursor is the index i of the loop of Tlv::deserialize or of   *)
(* get_crc, and crc_reg is get_crc's register crc.                         *)
(***************************************************************************)
VARIABLES pc, sta, vrp, fin, money, operation_num, elapsed,
          msg, sent, heard, told, vrp_op, since_live, cause,
          cpc, given, given_name, wire, back, cursor, crc_reg

loop == <<pc, sta, vrp, fin, money, operation_num, elapsed,
          msg, sent, heard, told, vrp_op, since_live, cause>>
scan == <<cursor, crc_reg>>
codec == <<cpc, given, given_name, wire, back, scan>>
vars == <<loop, codec>>

locals == <<sta, vrp, fin, money>>
history == <<heard, told, vrp_op>>

(***************************************************************************)
(* What the terminal may send: the record sets Vtk::receive can hand to    *)
(* the loop.                                                               *)
(***************************************************************************)
One == <<49>>
Two == <<50>>
PlusOne == <<43, 49>>
NotANumber == <<120>>
NotUtf8 == <<255>>

name_amount(name, amount) ==
    set_str(set_str(Tlv_new, MsgName, name), AmountInMinorCurrencyUnit, amount)

Inbound ==
    {name_amount(n, a) : n \in {STA, VRP, FIN}, a \in {One, Two}}
    \cup {set_str(Tlv_new, MsgName, n) : n \in {STA, VRP, FIN, IDL}}
    \cup {Tlv_new, set_str(Tlv_new, AmountInMinorCurrencyUnit, One)}
    \cup {name_amount(IDL, One), name_amount(VRP, PlusOne)}
    \cup {name_amount(STA, NotANumber), name_amount(STA, NotUtf8),
          name_amount(NotUtf8, One)}

\* Bytes from the terminal that receive decodes to the record set m: five
\* header bytes, the records, and bytes that decode to nothing.  receive
\* looks at neither the header nor a checksum.
terminal_frame(m) ==
    <<StartMarker, 0, 0>> \o Magic
    \o serialize(m, CHOOSE order \in Orders(m) : TRUE) \o <<0, 0, 0, 0>>

\* Reads that bring no message: an error, no byte at all, and the first
\* MinFrame - 1 bytes of a frame.
FailedReads ==
    {ReadFailed, <<>>, SubSeq(terminal_frame(name_amount(STA, One)), 1, MinFrame - 1)}

\* What port.read may return to the loop: one of the reads that bring no
\* message, or the frame of one of the record sets In.
Reads(Failed, In) == Failed \cup {terminal_frame(m) : m \in In}

\* Vtk::receive on each of them.
Received == [rd \in Reads(FailedReads, Inbound) |-> receive(rd)]

Amounts == {u32(0), u32(1), u32(2)}

Fresh == [a \in Amounts |-> 0]

\* The loop as main enters it.  The counter is the number the terminal's
\* first reply carried, any u32, or 0 when it carried none.
LoopInit(seeds) ==
    /\ pc = "timer"
    /\ sta = FALSE /\ vrp = FALSE /\ fin = FALSE /\ money = u32(0)
    /\ operation_num \in seeds
    /\ elapsed = 0
    /\ msg = NoMsg /\ sent = <<>>
    /\ heard = Fresh /\ told = Fresh /\ vrp_op = None
    /\ since_live = 0
    /\ cause = "none"

CodecIdle ==
    /\ cpc = "off"
    /\ given = Tlv_new /\ given_name = <<>>
    /\ wire = <<>> /\ back = NoMsg
    /\ cursor = 0 /\ crc_reg = 0

Init == LoopInit({u32(0), U32Max}) /\ CodecIdle

(***************************************************************************)
(* The observers.  heard[a] counts how much of the sequence STA(a),        *)
(* VRP(a), FIN(a) has been received in that order, told[a] how much of     *)
(* VRP(a), FIN(a) has been written in that order.                          *)
(***************************************************************************)
Advance(h, m, first) ==
    LET a == amount_of(m)
        at == IF name_is(m, STA) THEN first
              ELSE IF name_is(m, VRP) THEN first + 1
              ELSE IF name_is(m, FIN) THEN first + 2
              ELSE -2
    IN  IF walk_panics(m) \/ a \notin Amounts \/ at = -2 THEN h
        ELSE IF h[a] = at THEN [h EXCEPT ![a] = at + 1]
        ELSE h

Hear(h, m) == Advance(h, m, 0)

RECURSIVE Tell(_, _)
Tell(t, frames) ==
    IF frames = <<>> THEN t
    ELSE Tell(Advance(t, Head(frames), -1), Tail(frames))

(***************************************************************************)
(* The clock.  Under SpecTimed the seconds are counted: a step that blocks *)
(* for d seconds adds d.  Under Spec the clock is left open: all that is   *)
(* kept is whether the interval has been reached (KeepaliveSecs) or not    *)
(* (the value stays), and any blocking step may be the one that reaches    *)
(* it.  Every timed run is a run of the open clock.                        *)
(***************************************************************************)
Pass(timed, d) ==
    IF timed
    THEN /\ elapsed' = elapsed + d
         /\ since_live' = since_live + d
    ELSE \E reached \in BOOLEAN :
            /\ elapsed' = IF reached THEN KeepaliveSecs ELSE elapsed
            /\ since_live' = IF reached THEN KeepaliveSecs ELSE since_live

ReadDelays(timed) == IF timed THEN 0..ReadTimeoutSecs ELSE {0}

(***************************************************************************)
(* main.rs 88-93: the liveness timer.                                      *)
(***************************************************************************)
timer_due(secs) == secs >= KeepaliveSecs

\* A timer that is never restarted.
timer_not_restarted(secs) == secs

\* timer = Instant::now(): the seconds elapsed after the restart.
timer_restart(secs) == 0

KeepAlive ==
    /\ pc = "timer"
    /\ IF timer_due(elapsed)
       THEN /\ sent' = <<keepalive(operation_num)>>
            /\ elapsed' = timer_restart(elapsed)
            /\ since_live' = 0
       ELSE /\ sent' = <<>>
            /\ UNCHANGED <<elapsed, since_live>>
    /\ pc' = "receive"
    /\ msg' = NoMsg
    /\ UNCHANGED <<locals, operation_num, history, cause, codec>>

(***************************************************************************)
(* main.rs 95-118: one receive, blocking for d seconds, and the three      *)
(* classifiers applied in turn to the message it returned.  A panic leaves *)
(* what was written before it on the wire.                                 *)
(***************************************************************************)
Abort(why, m, frames, op) ==
    /\ pc' = "aborted"
    /\ cause' = why
    /\ msg' = OkMsg(m)
    /\ sent' = frames
    /\ operation_num' = op
    /\ UNCHANGED <<locals, history>>

ReceiveErr ==
    /\ pc' = "finalize"
    /\ msg' = ErrMsg
    /\ sent' = <<>>
    /\ UNCHANGED <<locals, operation_num, history, cause>>

\* A loop that tries match_fin on every message.
tries_fin_always(vrp_) == TRUE

\* `if vrp`: match_fin is tried once the reservation is confirmed.
tries_fin(vrp_) == vrp_

ReceiveOk(m) ==
    LET res == match_sta(m)
        start == IsSome(res)
        op1 == IF start THEN send_vrp_num(operation_num) ELSE operation_num
        out1 == IF start THEN <<send_vrp(res, op1)>> ELSE <<>>
        sta1 == sta \/ start
        money1 == IF start THEN res ELSE money
        res2 == IF sta1 THEN match_vrp(m, money1) ELSE "false"
        op2 == IF res2 = "true" THEN send_fin_num(op1) ELSE op1
        out2 == IF res2 = "true" THEN out1 \o <<send_fin(money1, op2)>> ELSE out1
        vrp1 == vrp \/ res2 = "true"
        res3 == IF tries_fin(vrp1) THEN match_fin(m, money1) ELSE "false"
        fin1 == fin \/ res3 = "true"
    IN  /\ start => operation_num # u32(MaxOpNum)
        /\ \/ /\ res = Panic
              /\ Abort("malformed", m, <<>>, operation_num)
           \/ /\ start /\ operation_num = U32Max
              /\ Abort("overflow", m, <<>>, operation_num)
           \/ /\ res # Panic /\ res2 = "panic"
              /\ Abort("no amount", m, out1, op1)
           \/ /\ res # Panic /\ res2 # "panic" /\ res3 = "panic"
              /\ Abort("no amount", m, out2, op2)
           \/ /\ res # Panic /\ res2 # "panic" /\ res3 # "panic"
              /\ pc' = "finalize"
              /\ msg' = OkMsg(m)
              /\ sent' = out2
              /\ operation_num' = op2
              /\ sta' = sta1 /\ money' = money1 /\ vrp' = vrp1 /\ fin' = fin1
              /\ heard' = Hear(heard, m)
              /\ told' = Tell(told, out2)
              /\ vrp_op' = IF start THEN parse_u32(out1[1][OperationNum]) ELSE vrp_op
              /\ UNCHANGED cause

Receive(timed, Rd) ==
    /\ pc = "receive"
    /\ UNCHANGED <<cpc, given, given_name, back, scan>>
    /\ \E d \in ReadDelays(timed) : Pass(timed, d)
    /\ \E rd \in Rd :
          /\ wire' = rd
          /\ IF Received[rd].res = "err"
             THEN ReceiveErr
             ELSE ReceiveOk(Received[rd].tlv)

\* A reset that leaves the pending amount in place.
Finalize_keeps_money ==
    /\ pc = "finalize"
    /\ IF sta /\ vrp /\ fin
       THEN /\ sent' = <<idle(Tlv_new)>>
            /\ sta' = FALSE /\ vrp' = FALSE /\ fin' = FALSE
            /\ heard' = Fresh /\ told' = Fresh /\ vrp_op' = None
            /\ UNCHANGED money
       ELSE /\ sent' = <<>>
            /\ UNCHANGED <<locals, history>>
    /\ pc' = "sleep"
    /\ msg' = NoMsg
    /\ wire' = <<>>
    /\ UNCHANGED <<operation_num, elapsed, since_live, cause>>
    /\ UNCHANGED <<cpc, given, given_name, back, scan>>

\* A reset that leaves the fin flag set.
Finalize_leaves_fin ==
    /\ pc = "finalize"
    /\ IF sta /\ vrp /\ fin
       THEN /\ sent' = <<idle(Tlv_new)>>
            /\ sta' = FALSE /\ vrp' = FALSE
            /\ money' = u32(0)
            /\ heard' = Fresh /\ told' = Fresh /\ vrp_op' = None
            /\ UNCHANGED fin
       ELSE /\ sent' = <<>>
            /\ UNCHANGED <<locals, history>>
    /\ pc' = "sleep"
    /\ msg' = NoMsg
    /\ wire' = <<>>
    /\ UNCHANGED <<operation_num, elapsed, since_live, cause>>
    /\ UNCHANGED <<cpc, given, given_name, back, scan>>

(***************************************************************************)
(* main.rs 120-127: the acknowledgement and the reset.  The message and    *)
(* the bytes it was decoded from are gone by now.                          *)
(***************************************************************************)
Finalize ==
    /\ pc = "finalize"
    /\ IF sta /\ vrp /\ fin
       THEN /\ sent' = <<idle(Tlv_new)>>
            /\ sta' = FALSE /\ vrp' = FALSE /\ fin' = FALSE
            /\ money' = u32(0)
            /\ heard' = Fresh /\ told' = Fresh /\ vrp_op' = None
       ELSE /\ sent' = <<>>
            /\ UNCHANGED <<locals, history>>
    /\ pc' = "sleep"
    /\ msg' = NoMsg
    /\ wire' = <<>>
    /\ UNCHANGED <<operation_num, elapsed, since_live, cause>>
    /\ UNCHANGED <<cpc, given, given_name, back, scan>>

(***************************************************************************)
(* main.rs 128: thread::sleep.                                             *)
(***************************************************************************)
Sleep(timed) ==
    /\ pc = "sleep"
    /\ pc' = "timer"
    /\ Pass(timed, SleepSecs)
    /\ msg' = NoMsg
    /\ sent' = <<>>
    /\ UNCHANGED <<locals, operation_num, history, cause, codec>>

Loop(timed, Rd) ==
    KeepAlive \/ Receive(timed, Rd) \/ Finalize \/ Sleep(timed)

(***************************************************************************)
(* Spec: the loop against every inbound message and every read that brings *)
(* none, the clock left open.  SpecTimed: the loop with the seconds        *)
(* counted, against a terminal that plays the handshake of one amount or   *)
(* lets the read time out.                                                 *)
(***************************************************************************)
Next == Loop(FALSE, Reads(FailedReads, Inbound))

Spec == Init /\ [][Next]_vars

Handshake == {name_amount(n, One) : n \in {STA, VRP, FIN}}

NextTimed == Loop(TRUE, Reads({ReadFailed}, Handshake))

SpecTimed == Init /\ [][NextTimed]_vars

(***************************************************************************)
(* SpecCodec: the codec applied to record sets of known keys with values   *)
(* of at most 255 bytes.  One run serializes a record set and deserializes *)
(* the bytes, or sends it under a message name and receives the frame.     *)
(***************************************************************************)
MaxValueLen == 255

LongValue == [i \in 1..MaxValueLen |-> 0]

CodecKeys == {MsgName, OperationNum, AmountInMinorCurrencyUnit}
CodecValues == {<<>>, One, <<AmountInMinorCurrencyUnit, 1>>, LongValue}
CodecNames == {IDL, VRP, FIN, DIS}

CodecTlvs == UNION {[keys -> CodecValues] : keys \in SUBSET CodecKeys}

CodecInit ==
    /\ LoopInit({u32(0)})
    /\ cpc = "input"
    /\ given \in CodecTlvs
    /\ given_name \in CodecNames
    /\ wire = <<>>
    /\ back = NoMsg
    /\ cursor = 0 /\ crc_reg = 0

Serialize ==
    /\ cpc = "input"
    /\ \E order \in Orders(given) : wire' = serialize(given, order)
    /\ cpc' = "serialized"
    /\ UNCHANGED <<given, given_name, back, scan, loop>>

Deserialize ==
    /\ cpc = "serialized"
    /\ back' = OkMsg(deserialize(wire))
    /\ cpc' = "deserialized"
    /\ UNCHANGED <<given, given_name, wire, scan, loop>>

Send ==
    /\ cpc = "input"
    /\ \E order \in Orders(send(given_name, given)) :
          wire' = send_bytes(given_name, given, order)
    /\ cpc' = "sent"
    /\ UNCHANGED <<given, given_name, back, scan, loop>>

PortReceive ==
    /\ cpc = "sent"
    /\ back' = receive(wire)
    /\ cpc' = "received"
    /\ UNCHANGED <<given, given_name, wire, scan, loop>>

NextCodec == Serialize \/ Deserialize \/ Send \/ PortReceive

SpecCodec == CodecInit /\ [][NextCodec]_vars

(***************************************************************************)
(* SpecDecode: the loop of Tlv::deserialize run round by round on a byte   *)
(* buffer: runs of up to MaxRecords records of known and unknown keys, and *)
(* buffers that are empty, cut short or padded with zeros.                 *)
(***************************************************************************)
MaxRecords == 3

rec(k, v) == <<k, Len(v)>> \o v

UnknownKeys == {0, 2, DisplayTimeInMs + 1}
DecodeKeys == {MsgName, AmountInMinorCurrencyUnit} \cup UnknownKeys
DecodeValues == {<<65>>, <<AmountInMinorCurrencyUnit, 0>>}
DecodeRecs == {rec(k, v) : k \in DecodeKeys, v \in DecodeValues}

RECURSIVE Runs(_)
\* The concatenations of n records.
Runs(n) ==
    IF n = 0 THEN {<<>>}
    ELSE {r \o run : r \in DecodeRecs, run \in Runs(n - 1)}

\* A lone key byte, records whose declared length runs past the end, a
\* record with an empty value, and an unknown record of 255 bytes declared
\* with 254 there.
EdgeCases ==
    {<<MsgName>>,
     <<MsgName, 3, 65>>,
     rec(MsgName, STA) \o <<AmountInMinorCurrencyUnit, 200, 49>>,
     rec(MsgName, STA) \o <<AmountInMinorCurrencyUnit>>,
     rec(AmountInMinorCurrencyUnit, <<>>),
     <<0, 255>> \o [i \in 1..254 |-> 0]}

\* What receive hands over: zeros alone, and two records and zeros.
Padded ==
    {[i \in 1..(BufLen - HeaderLen) |-> 0],
     rec(MsgName, STA) \o rec(AmountInMinorCurrencyUnit, One)
        \o [i \in 1..(BufLen - HeaderLen - 8) |-> 0]}

DecodeInputs == UNION {Runs(n) : n \in 0..MaxRecords} \cup EdgeCases \cup Padded

DecodeInit ==
    /\ LoopInit({u32(0)})
    /\ cpc = "decoding"
    /\ given = Tlv_new /\ given_name = <<>>
    /\ wire \in DecodeInputs
    /\ back = OkMsg(Tlv_new)
    /\ cursor = 0 /\ crc_reg = 0

\* One round of the loop: `match Self::deser_one(raw, i)`.
DecodeRound ==
    /\ cpc = "decoding"
    /\ LET st == deserialize_round(wire, <<cursor, back.tlv, FALSE>>)
       IN  /\ cursor' = st[1]
           /\ back' = OkMsg(st[2])
           /\ cpc' = IF st[3] THEN "decoded" ELSE "decoding"
    /\ UNCHANGED <<given, given_name, wire, crc_reg, loop>>

NextDecode == DecodeRound

SpecDecode == DecodeInit /\ [][NextDecode]_vars

(***************************************************************************)
(* SpecCrc: the loop of get_crc run round by round: on every single byte   *)
(* and on every byte string of up to MaxCrcLen of the bytes CrcBytes.      *)
(***************************************************************************)
MaxCrcLen == 2

CrcBytes == {0, 1, 49, 127, 128, 255}

RECURSIVE Strings(_)
Strings(n) ==
    IF n = 0 THEN {<<>>}
    ELSE {<<b>> \o str : b \in CrcBytes, str \in Strings(n - 1)}

CrcInputs == UNION {Strings(n) : n \in 0..MaxCrcLen} \cup {<<b>> : b \in 0..255}

SumInit ==
    /\ LoopInit({u32(0)})
    /\ cpc = "summing"
    /\ given = Tlv_new /\ given_name = <<>>
    /\ wire \in CrcInputs
    /\ back = NoMsg
    /\ cursor = 0 /\ crc_reg = CrcInit

\* One round of `for i in 0..data.len()`, or the return of crc.
CrcRound ==
    /\ cpc = "summing"
    /\ IF cursor < Len(wire)
       THEN /\ crc_reg' = crc_step(crc_reg, wire[cursor + 1])
            /\ cursor' = cursor + 1
            /\ UNCHANGED cpc
       ELSE /\ cpc' = "summed"
            /\ UNCHANGED <<cursor, crc_reg>>
    /\ UNCHANGED <<given, given_name, wire, back, loop>>

NextCrc == CrcRound

SpecCrc == SumInit /\ [][NextCrc]_vars

(***************************************************************************)
(* The handshake claims.                                                   *)
(***************************************************************************)
Idle == ~sta
Started == sta /\ ~vrp
Reserved == sta /\ vrp /\ ~fin
Finalized == sta /\ vrp /\ fin

\* b is a + 1, as numbers: the largest u32 has no successor.
IsSucc(a, b) ==
    \/ b[1] = a[1] /\ b[2] = a[2] + 1
    \/ b[1] = a[1] + 1 /\ a[2] = Half - 1 /\ b[2] = 0

Named(frames, name) == {i \in 1..Len(frames) : name_is(frames[i], name)}

\* A frame carries the number v under key.
Carries(frame, key, v) == HasKey(frame, key) /\ parse_u32(frame[key]) = v

\* The step received a message called name whose amount parses.
Got(name) ==
    /\ pc = "receive"
    /\ msg'.res = "ok"
    /\ name_is(msg'.tlv, name)
    /\ IsSome(amount_of(msg'.tlv))

\* C1: whenever the loop finds the session Finalized with pending amount A,
\* it has received STA, VRP and FIN of amount A in that order since the last
\* reset, and has written a VRP and then a FIN frame of amount A.
C1_AmountIntegrity ==
    (pc = "finalize" /\ Finalized) => (heard[money] = 3 /\ told[money] = 2)

\* C2: a STA with amount A received while Idle with counter n makes the loop
\* write exactly one VRP frame carrying A and n + 1, and leaves the session
\* Started with pending amount A and counter n + 1.
C2_StartTransition ==
    [][(Got(STA) /\ Idle) =>
        /\ pc' = "finalize"
        /\ Cardinality(Named(sent', VRP)) = 1
        /\ \A i \in Named(sent', VRP) :
              /\ Carries(sent'[i], AmountInMinorCurrencyUnit, amount_of(msg'.tlv))
              /\ HasKey(sent'[i], OperationNum)
              /\ IsSome(parse_u32(sent'[i][OperationNum]))
              /\ IsSucc(operation_num, parse_u32(sent'[i][OperationNum]))
        /\ sta' /\ ~vrp' /\ ~fin'
        /\ money' = amount_of(msg'.tlv)
        /\ IsSucc(operation_num, operation_num')]_vars

\* C3: a VRP whose amount equals the pending amount, received while Started,
\* makes the session Reserved and makes the loop write exactly one FIN frame,
\* which carries the pending amount and the counter; the counter is not
\* changed and is the value the preceding VRP frame carried.
C3_ReserveConfirm ==
    [][(Got(VRP) /\ Started /\ amount_of(msg'.tlv) = money) =>
        /\ pc' = "finalize"
        /\ sta' /\ vrp' /\ ~fin'
        /\ money' = money
        /\ operation_num' = operation_num
        /\ operation_num = vrp_op
        /\ Len(sent') = 1
        /\ name_is(sent'[1], FIN)
        /\ Carries(sent'[1], AmountInMinorCurrencyUnit, money)
        /\ Carries(sent'[1], OperationNum, operation_num)]_vars

C3_Witness ==
    /\ pc = "finalize" /\ Reserved
    /\ msg.res = "ok" /\ name_is(msg.tlv, VRP) /\ amount_of(msg.tlv) = money
    /\ Len(sent) = 1 /\ name_is(sent[1], FIN)
    /\ told[money] = 2 /\ heard[money] = 2

\* C4: a FIN whose amount equals the pending amount, received while Reserved,
\* makes the session Finalized in that step; the next step of the same
\* iteration writes one IDL frame and resets the session to Idle with the
\* pending amount 0; so no receive is ever attempted while Finalized.
C4_FinalizeAndReset ==
    [][/\ (Got(FIN) /\ Reserved /\ amount_of(msg'.tlv) = money) =>
            (pc' = "finalize" /\ Finalized' /\ money' = money)
       /\ (pc = "finalize" /\ Finalized) =>
            /\ pc' = "sleep"
            /\ Len(sent') = 1 /\ name_is(sent'[1], IDL)
            /\ Idle' /\ ~vrp' /\ ~fin'
            /\ money' = u32(0)
       /\ pc' = "receive" => ~Finalized']_vars

C4_Witness ==
    /\ pc = "sleep" /\ Idle /\ ~vrp /\ ~fin /\ money = u32(0)
    /\ Len(sent) = 1 /\ name_is(sent[1], IDL)

\* C5: a VRP received while Started, or a FIN received while Reserved, whose
\* amount parses to a value other than the pending amount changes neither
\* the stage, the pending amount nor the counter, and no frame is written.
C5_MismatchIgnored ==
    [][(/\ (Got(VRP) /\ Started) \/ (Got(FIN) /\ Reserved)
        /\ amount_of(msg'.tlv) # money) =>
        /\ pc' = "finalize"
        /\ UNCHANGED <<sta, vrp, fin, money, operation_num>>
        /\ sent' = <<>>]_vars

C5_Witness ==
    /\ pc = "finalize" /\ Started
    /\ msg.res = "ok" /\ name_is(msg.tlv, VRP)
    /\ IsSome(amount_of(msg.tlv)) /\ amount_of(msg.tlv) # money
    /\ sent = <<>>

\* C6: the counter never decreases: a step leaves it unchanged or, when it
\* writes a VRP frame, adds exactly one.
C6_CounterMonotone ==
    [][\/ operation_num' = operation_num
       \/ /\ IsSucc(operation_num, operation_num')
          /\ Named(sent', VRP) # {}]_vars

\* A liveness frame: an IDL frame that carries an operation number.
Liveness(frame) == name_is(frame, IDL) /\ HasKey(frame, OperationNum)

\* C7: in every stage, the timer step writes a liveness frame, carrying the
\* counter in decimal, exactly when 270 seconds have passed since the last
\* liveness frame (or the start of the loop), and then restarts the timer;
\* no other step writes one.
C7_KeepaliveCadence ==
    [][/\ (pc = "timer" /\ since_live >= KeepaliveSecs) =>
            /\ Len(sent') = 1 /\ Liveness(sent'[1])
            /\ Carries(sent'[1], OperationNum, operation_num)
            /\ sent'[1][OperationNum] = to_string(operation_num)
            /\ elapsed' = 0
       /\ (pc # "timer" \/ since_live < KeepaliveSecs) =>
            \A i \in 1..Len(sent') : ~Liveness(sent'[i])]_vars

C7_Witness ==
    /\ pc = "receive" /\ Reserved
    /\ Len(sent) = 1 /\ Liveness(sent[1])
    /\ since_live = 0

(***************************************************************************)
(* The codec claims.                                                       *)
(***************************************************************************)
\* C8: the frame that send writes for a name and a record set, handed to
\* receive, decodes to that record set with MsgName set to the name.
C8_FrameRoundTrip ==
    cpc = "received" =>
        (back.res = "ok" /\ back.tlv = set_str(given, MsgName, given_name))

\* C9: deserialize(serialize(r)) is r, whatever the order of the pairs.
C9_RecordRoundTrip ==
    cpc = "deserialized" => back.tlv = given

C9_Witness ==
    /\ cpc = "deserialized"
    /\ Cardinality(DOMAIN given) = 3
    /\ given[OperationNum] = LongValue
    /\ given[MsgName] = <<>>
    /\ back.tlv = given

RECURSIVE Records(_)
\* The records of a byte string that is a run of well-formed records, in
\* order, as <<key, value>>; a byte string that is not ends in <<-1, <<>>>>.
Records(bytes) ==
    IF bytes = <<>> THEN <<>>
    ELSE IF Len(bytes) < 2 \/ Len(bytes) < 2 + bytes[2] THEN << <<-1, <<>>>> >>
    ELSE << <<bytes[1], SubSeq(bytes, 3, 2 + bytes[2])>> >>
         \o Records(SubSeq(bytes, 3 + bytes[2], Len(bytes)))

\* C10: a frame written by send is the start marker 0x1F, the big-endian
\* length 2 + len(records), the magic 0x96 0xFB, the serialized records, with
\* exactly one MsgName record, which holds the given name, and every other
\* pair of the given set once, and the big-endian CRC16 of all that precedes
\* it.
C10_FrameLayout ==
    cpc = "sent" =>
        LET n == Len(wire)
            payload == SubSeq(wire, HeaderLen + 1, n - 2)
            recs == Records(payload)
            named == {i \in 1..Len(recs) : recs[i][1] = MsgName}
        IN  /\ n >= HeaderLen + 2
            /\ wire[1] = 31
            /\ wire[2] * 256 + wire[3] = 2 + Len(payload)
            /\ wire[4] = 150 /\ wire[5] = 251
            /\ Cardinality(named) = 1
            /\ \A i \in named : recs[i][2] = given_name
            /\ Len(recs) = Cardinality(DOMAIN given \cup {MsgName})
            /\ \A k \in DOMAIN given \ {MsgName} :
                  \E i \in 1..Len(recs) : recs[i] = <<k, given[k]>>
            /\ wire[n - 1] * 256 + wire[n] = get_crc(SubSeq(wire, 1, n - 2))

C10_Witness ==
    /\ cpc = "sent"
    /\ given_name = DIS
    /\ Cardinality(DOMAIN given) = 3
    /\ given[MsgName] = One
    /\ Len(wire) > HeaderLen + 2

(***************************************************************************)
(* The claims on reads that bring no message and on malformed messages.    *)
(***************************************************************************)
\* C11: when port.read fails, times out or returns fewer than 9 bytes,
\* receive yields an error and no record set, and the loop takes it as no
\* message: the stage, the pending amount and the counter stay, no frame is
\* written, and the loop goes on to its sleep and its next iteration.
C11_FailedReceive ==
    [][/\ (pc = "receive" /\ (wire' = ReadFailed \/ Len(wire') < MinFrame)) =>
            /\ msg' = ErrMsg
            /\ pc' = "finalize"
            /\ UNCHANGED <<sta, vrp, fin, money, operation_num>>
            /\ sent' = <<>>
       /\ (pc = "finalize" /\ msg.res = "err") =>
            /\ pc' = "sleep"
            /\ UNCHANGED <<sta, vrp, fin, money, operation_num>>
            /\ sent' = <<>>]_vars

C11_Witness ==
    /\ pc = "finalize" /\ Reserved
    /\ Len(wire) = MinFrame - 1 /\ wire[HeaderLen + 1] = MsgName
    /\ msg = ErrMsg /\ sent = <<>>

\* C12: no decoded record set, in any stage, makes the loop abort: the step
\* that receives it leaves the loop at its finalize check, whatever the
\* message holds (an abort on the overflow of the counter is not the
\* message's doing).
C12_NeverCrashes ==
    [][(pc = "receive" /\ msg'.res = "ok") =>
        (pc' = "finalize" \/ cause' = "overflow")]_vars

(***************************************************************************)
(* The decoding claims.                                                    *)
(***************************************************************************)
\* One more whole record of a byte string, on <<bytes taken, records, done>>.
WholeRound(bytes, st) ==
    LET at == st[1]
    IN  IF st[3] \/ Len(bytes) < at + 2 \/ Len(bytes) < at + 2 + bytes[at + 2]
        THEN <<at, st[2], TRUE>>
        ELSE <<at + 2 + bytes[at + 2],
               Append(st[2], <<bytes[at + 1],
                               SubSeq(bytes, at + 3, at + 2 + bytes[at + 2])>>),
               FALSE>>

RECURSIVE WholeRounds(_, _, _)
WholeRounds(bytes, st, n) ==
    IF n = 0 THEN st
    ELSE IF n = 1 THEN WholeRound(bytes, st)
    ELSE LET half == WholeRounds(bytes, st, n \div 2)
         IN  IF half[3] THEN half
             ELSE WholeRounds(bytes, half, n - (n \div 2))

\* The whole records a byte string begins with, as <<key, value>>.
Whole(bytes) ==
    WholeRounds(bytes, <<0, <<>>, FALSE>>, (Len(bytes) \div 2) + 1)[2]

RECURSIVE Flatten(_)
\* The bytes of a run of records.
Flatten(recs) ==
    IF recs = <<>> THEN <<>>
    ELSE IF Len(recs) = 1 THEN rec(recs[1][1], recs[1][2])
    ELSE LET mid == Len(recs) \div 2
         IN  Flatten(SubSeq(recs, 1, mid)) \o Flatten(SubSeq(recs, mid + 1, Len(recs)))

Positions(recs, k) == {i \in 1..Len(recs) : recs[i][1] = k}

Min(S) == CHOOSE x \in S : \A y \in S : x <= y

DropKey(recs, k) == SelectSeq(recs, LAMBDA r : r[1] # k)

\* C13: when a known key K occurs in two or more whole records of the
\* buffer, deserialize maps K to the value of its first occurrence, and
\* the outcome is that of the buffer without the later occurrences of K.
C13_FirstOccurrenceWins ==
    cpc = "decoded" =>
        LET recs == Whole(wire)
        IN  \A k \in TlvKey :
                Cardinality(Positions(recs, k)) >= 2 =>
                    LET first == Min(Positions(recs, k))
                        once == SubSeq(recs, 1, first)
                                \o DropKey(SubSeq(recs, first + 1, Len(recs)), k)
                    IN  /\ k \in DOMAIN back.tlv
                        /\ back.tlv[k] = recs[first][2]
                        /\ back.tlv = deserialize(Flatten(once))

C13_Witness ==
    /\ cpc = "decoded"
    /\ wire = rec(MsgName, <<65>>) \o rec(AmountInMinorCurrencyUnit, <<65>>)
              \o rec(MsgName, <<AmountInMinorCurrencyUnit, 0>>)
    /\ back.tlv = name_amount(<<65>>, <<65>>)

\* C14: a whole record whose key is not a TlvKey is stepped over, key,
\* length and value, and leaves no entry; the outcome is that of the buffer
\* without the records of unknown keys.
C14_UnknownKeySkipped ==
    cpc = "decoded" =>
        LET recs == Whole(wire)
            known == SelectSeq(recs, LAMBDA r : r[1] \in TlvKey)
        IN  /\ DOMAIN back.tlv \subseteq TlvKey
            /\ cursor = Len(Flatten(recs))
            /\ back.tlv = deserialize(Flatten(known))

C14_Witness ==
    /\ cpc = "decoded"
    /\ wire = rec(DisplayTimeInMs + 1, <<AmountInMinorCurrencyUnit, 0>>)
              \o rec(AmountInMinorCurrencyUnit, <<65>>)
    /\ cursor = Len(wire)
    /\ back.tlv = set_str(Tlv_new, AmountInMinorCurrencyUnit, <<65>>)

\* C19: every round of deserialize's loop finds the cursor inside the
\* buffer; it breaks, changing nothing, exactly when fewer than 2 bytes are
\* left or the declared length runs past the end, and otherwise moves the
\* cursor on by the 2 + length bytes of the record, so the bytes left
\* decrease by at least 2 a round and the loop ends; every entry is a whole
\* record of the buffer, and the loop ends with what deserialize returns.
C19_DecodingTerminates ==
    [][cpc = "decoding" =>
        LET left == Len(wire) - cursor
            stops == left < 2 \/ left < 2 + wire[cursor + 2]
            recs == Whole(wire)
        IN  /\ 0 <= left
            /\ cursor' <= Len(wire)
            /\ IF stops
               THEN cpc' = "decoded" /\ cursor' = cursor /\ back' = back
               ELSE /\ cpc' = "decoding"
                    /\ cursor' = cursor + 2 + wire[cursor + 2]
                    /\ cursor' >= cursor + 2
            /\ \A k \in DOMAIN back'.tlv :
                  \E i \in 1..Len(recs) : recs[i] = <<k, back'.tlv[k]>>
            /\ cpc' = "decoded" => back'.tlv = deserialize(wire)]_vars

C19_Witness ==
    /\ cpc = "decoded"
    /\ Len(wire) = BufLen - HeaderLen
    /\ cursor = Len(wire) - 1
    /\ back.tlv = name_amount(STA, One)

(***************************************************************************)
(* The CRC claim.  The reference: CRC-16/CCITT computed bit by bit, most   *)
(* significant bit first, polynomial 0x1021, in 16 bits.                   *)
(***************************************************************************)
\* One bit: the register shifted left, the polynomial xored in when the top
\* bit fell out.
bitwise_shift(reg) ==
    IF reg >= 32768 THEN Xor((reg * 2) % 65536, 4129) ELSE reg * 2

RECURSIVE bitwise_shifts(_, _)
bitwise_shifts(reg, n) ==
    IF n = 0 THEN reg ELSE bitwise_shifts(bitwise_shift(reg), n - 1)

\* One byte: xored into the high byte of the register, then eight shifts.
bitwise_byte(reg, byte) == bitwise_shifts(Xor(reg, byte * 256), 8)

RECURSIVE bitwise_crc(_, _)
bitwise_crc(reg, data) ==
    IF data = <<>> THEN reg
    ELSE bitwise_crc(bitwise_byte(reg, Head(data)), Tail(data))

\* Entry i of the table is the bitwise remainder of the byte i.
TableIsBitwise ==
    /\ Len(CRC16_CCITT_TABLE) = 256
    /\ \A b \in 0..255 : CRC16_CCITT_TABLE[b + 1] = bitwise_byte(0, b)

\* C15: the register of the table-driven get_crc is, after every round, the
\* bitwise CRC-16/CCITT (initial register 0xFFFF, no final xor) of the bytes
\* taken so far, and get_crc returns that of the whole input; the empty
\* input yields 0xFFFF; entry i of the table is the bitwise remainder of
\* the byte i from a zero register.
C15_CrcReference ==
    /\ crc_reg \in 0..65535
    /\ crc_reg = bitwise_crc(65535, SubSeq(wire, 1, cursor))
    /\ cpc = "summed" =>
          /\ cursor = Len(wire)
          /\ crc_reg = get_crc(wire)
          /\ wire = <<>> => crc_reg = 65535
    /\ TableIsBitwise

C15_Witness ==
    /\ cpc = "summed"
    /\ wire = <<49, 255>>
    /\ crc_reg = 13659

(***************************************************************************)
(* The claims on the stages of the handshake.                              *)
(***************************************************************************)
\* C16: a STA with a parseable amount received while Started or Reserved
\* changes neither the stage, the pending amount nor the counter, and no
\* VRP frame is written.
C16_StartOnlyInIdle ==
    [][(Got(STA) /\ ~Idle) =>
        /\ UNCHANGED <<sta, vrp, fin, money, operation_num>>
        /\ Named(sent', VRP) = {}]_vars

\* The step received a message that is no event expected at the stage: a
\* VRP or a FIN while Idle, a FIN while Started, or a message of another
\* name or of no name in any stage.
Unexpected ==
    /\ pc = "receive"
    /\ msg'.res = "ok"
    /\ \/ Idle /\ (name_is(msg'.tlv, VRP) \/ name_is(msg'.tlv, FIN))
       \/ Started /\ name_is(msg'.tlv, FIN)
       \/ \A name \in {STA, VRP, FIN} : ~name_is(msg'.tlv, name)

\* C17: a message that is no event expected at the stage changes neither
\* the stage, the pending amount nor the counter, and no frame is written;
\* Reserved is entered from Started only and Finalized from Reserved only.
C17_NoStageSkipping ==
    [][/\ Unexpected =>
            /\ UNCHANGED <<sta, vrp, fin, money, operation_num>>
            /\ sent' = <<>>
       /\ (Reserved' /\ ~Reserved) => Started
       /\ (Finalized' /\ ~Finalized) => Reserved]_vars

C17_Witness ==
    /\ pc = "finalize" /\ Started
    /\ msg.res = "ok" /\ name_is(msg.tlv, FIN) /\ amount_of(msg.tlv) = money
    /\ sent = <<>>

\* The step received a message, called name, that has no amount field.
GotBare(name) ==
    /\ pc = "receive"
    /\ msg'.res = "ok"
    /\ name_is(msg'.tlv, name)
    /\ ~HasKey(msg'.tlv, AmountInMinorCurrencyUnit)

\* C18, as claimed: a message without amount whose name matches the event
\* being classified, STA in match_sta, VRP in match_vrp while Started, FIN
\* in match_fin while Reserved, makes the loop abort.
C18_MissingAmountAborts ==
    [][(\/ GotBare(STA)
        \/ GotBare(VRP) /\ Started
        \/ GotBare(FIN) /\ Reserved) => pc' = "aborted"]_vars

\* C18, amended: a VRP without amount classified while Started and a FIN
\* without amount classified while Reserved make the loop abort; a STA
\* without amount does not: match_sta returns None and the message is
\* ignored, with no transition and no frame.
C18_MissingAmountAmended ==
    [][/\ ((GotBare(VRP) /\ Started) \/ (GotBare(FIN) /\ Reserved)) =>
            /\ pc' = "aborted"
            /\ cause' = "no amount"
       /\ GotBare(STA) =>
            /\ pc' = "finalize"
            /\ UNCHANGED <<sta, vrp, fin, money, operation_num>>
            /\ sent' = <<>>]_vars

C18_Witness ==
    /\ pc = "aborted" /\ cause = "no amount"
    /\ Started
    /\ msg.res = "ok" /\ name_is(msg.tlv, VRP)
    /\ ~HasKey(msg.tlv, AmountInMinorCurrencyUnit)

\* Idle 0, Started 1, Reserved 2, Finalized 3.
StageNo == IF ~sta THEN 0 ELSE IF ~vrp THEN 1 ELSE IF ~fin THEN 2 ELSE 3

WellFormed ==
    /\ vrp => sta
    /\ fin => vrp
    /\ ~sta => money = u32(0)

\* C20: at every position of the loop vrp implies sta, fin implies vrp and
\* the pending amount is 0 while Idle; a received message advances the
\* session by one stage at most.
C20_WellFormedFlags ==
    [][/\ WellFormed
       /\ WellFormed'
       /\ pc = "receive" => (StageNo' = StageNo \/ StageNo' = StageNo + 1)]_vars

C20_Witness ==
    /\ pc = "finalize" /\ sta /\ vrp /\ fin
    /\ msg.res = "ok" /\ name_is(msg.tlv, FIN)
    /\ money = u32(2)

====
